---- MODULE Spec2Model ----
(***************************************************************************)
(* The Express server of StripePaymentFlow (server/routes.ts) over its     *)
(* store (server/storage.ts), with the payment provider as environment.    *)
(*                                                                         *)
(* Numbers.  A JavaScript number v that holds money is represented by the  *)
(* integer 1000 * v, so 1.50 is 1500, 0.505 is 505 and the integer 150 is  *)
(* 150000.  The provider's own amounts are integers of pence and are kept  *)
(* as such (p); p as a JavaScript number is 1000 * p and p / 100 is        *)
(* 10 * p.                                                                 *)
(*                                                                         *)
(* Interleaving.  Node runs a handler without interruption up to the next  *)
(* await of real I/O.  The store's methods are async but do no I/O, so     *)
(* awaiting them only passes through the microtask queue, which is drained *)
(* before another request's callback runs.  The awaits of provider calls   *)
(* (currentStripe calls) are the only points where another request can   *)
(* run: each handler is one action per segment between provider calls,    *)
(* and the segments still to run are the records of inflight.              *)
(***************************************************************************)
EXTENDS Integers, Sequences, FiniteSets, TLC

\* ------------------------------------------------------------------ bounds
\* of Spec, the server around one payment intent
MaxIntents == 1        \* payment intents the provider ever holds
MaxRefunds == 1        \* refunds the provider ever holds
MaxInFlight == 1       \* requests suspended at a provider call at one time
MaxPaymentId == 2      \* payment ids the store ever gives out
MaxRefundId == 2       \* refund ids the store ever gives out
\* of SpecSync, the history sync over several provider objects
SyncMaxIntents == 2
SyncMaxRefunds == 2
SyncMaxPaymentId == 3
SyncMaxRefundId == 3
\* of SpecRace, a payment's creation beside a history sync
RaceMaxIntents == 1
RaceMaxInFlight == 2
RaceMaxPaymentId == 2
\* of SpecHistory, the history sync of an account with a long history
MaxHistory == 101      \* payment intents the account holds at the start
HistoryMaxRefunds == 2

MaxListed == 3         \* records of each kind in a store that is listed
MaxTime == 2           \* milliseconds over which those records were created

\* ----------------------------------------------------------- value domains
Modes == {"test", "live"}

Null == "null"

\* the amount field of a request body: <<>> when it is omitted, else <<v>>
NoAmount == <<>>

\* amounts sent to POST /api/create-payment-intent: none, 0, 0.40, 0.505, 50
PaymentAmounts == {NoAmount, <<0>>, <<400>>, <<505>>, <<50000>>}

\* amounts sent to POST /api/create-refund: none, 0.50, 50
RefundAmounts == {NoAmount, <<500>>, <<50000>>}

\* the mode field of a request body to POST /api/switch-mode
ModeInputs == {"test", "live", "prod"}

\* pence of the intents created at the provider by other clients
ExternalAmounts == {5000}

\* limit: 100 of paymentIntents.list and refunds.list
ListLimit == 100

\* the event types the provider emits here
EventTypes == {"payment_intent.succeeded", "payment_intent.payment_failed"}


VARIABLES
    currentMode,        \* routes.ts: let currentMode
    currentStripe,      \* routes.ts: let currentStripe, as the mode of its key
    webhookSecret,      \* routes.ts: const webhookSecret, as "is it set"
    payments,           \* MemStorage.payments: id -> Payment
    refunds,            \* MemStorage.refunds: id -> Refund
    webhookEvents,      \* MemStorage.webhookEvents: eventId -> WebhookEvent
    currentPaymentId,   \* MemStorage.currentPaymentId
    currentRefundId,    \* MemStorage.currentRefundId
    provIntents,        \* provider: payment intent id -> intent
    provRefunds,        \* provider: refund id -> refund
    inflight,           \* handlers suspended at the await of a provider call
    reconciled,         \* history: payment id -> the snapshot that POST
                        \* /api/update-payment-status last applied to it, and
                        \* the record as that update left it
    listed              \* the last answer of GET /api/payments or
                        \* GET /api/refunds, with its limit and offset

store == <<payments, refunds, webhookEvents, currentPaymentId, currentRefundId>>
modeContext == <<currentMode, currentStripe>>
provider == <<provIntents, provRefunds>>
vars == <<currentMode, currentStripe, webhookSecret, payments, refunds,
          webhookEvents, currentPaymentId, currentRefundId, provIntents,
          provRefunds, inflight, reconciled, listed>>

\* ------------------------------------------------------- server/storage.ts
\* Map.set(k, v) and Map.delete(k) on a Map kept as a function
MapSet(m, k, v) == (k :> v) @@ m
MapDelete(m, k) == [x \in (DOMAIN m) \ {k} |-> m[x]]

Min(S) == CHOOSE x \in S : \A y \in S : x <= y

\* v || null, for a card field (a string) and for stripeFee (<<>> is null, and
\* the number 0 is falsy)
StringOrNull(v) == IF v = "" THEN Null ELSE v
FeeOrNull(v) == IF v = <<0>> THEN <<>> ELSE v

\* MemStorage.createPayment with id = this.currentPaymentId (the caller
\* advances the counter); createdAt and updatedAt are not modelled
createPayment(ps, id, insertPayment) ==
    MapSet(ps, id,
        [ id |-> id,
          paymentIntentId |-> insertPayment.paymentIntentId,
          amount |-> insertPayment.amount,
          status |-> insertPayment.status,
          cardLast4 |-> StringOrNull(insertPayment.cardLast4),
          paymentMethodType |-> StringOrNull(insertPayment.paymentMethodType),
          stripeFee |-> FeeOrNull(insertPayment.stripeFee),
          isLiveMode |-> insertPayment.isLiveMode ])

\* a lookup by the record's own id where the intent's id is meant
getPaymentById(ps, paymentIntentId) ==
    IF paymentIntentId \in DOMAIN ps THEN <<ps[paymentIntentId]>> ELSE <<>>

\* MemStorage.getPaymentByIntentId: Array.find over the Map's values, which are
\* in insertion order, that is in id order; <<>> is undefined
getPaymentByIntentId(ps, paymentIntentId) ==
    LET found == {id \in DOMAIN ps : ps[id].paymentIntentId = paymentIntentId}
    IN  IF found = {} THEN <<>> ELSE <<ps[Min(found)]>>

\* { ...record, ...updates }
Spread(record, updates) ==
    [f \in DOMAIN record |-> IF f \in DOMAIN updates THEN updates[f] ELSE record[f]]

\* an update that adds a fee to the one the record holds
updatePaymentAddingFee(ps, id, updates) ==
    IF id \notin DOMAIN ps THEN ps
    ELSE IF "stripeFee" \in DOMAIN updates /\ updates.stripeFee # <<>>
            /\ ps[id].stripeFee # <<>>
    THEN MapSet(ps, id, Spread(ps[id],
             [f \in DOMAIN updates |->
                 IF f = "stripeFee" THEN <<ps[id].stripeFee[1] + updates.stripeFee[1]>>
                 ELSE updates[f]]))
    ELSE MapSet(ps, id, Spread(ps[id], updates))

\* an update that leaves the status of a succeeded record as it is
updatePaymentKeepingSucceeded(ps, id, updates) ==
    IF id \notin DOMAIN ps THEN ps
    ELSE IF ps[id].status = "succeeded"
    THEN MapSet(ps, id, Spread(ps[id],
             [f \in DOMAIN updates \ {"status"} |-> updates[f]]))
    ELSE MapSet(ps, id, Spread(ps[id], updates))

\* MemStorage.updatePayment: an absent id changes nothing
updatePayment(ps, id, updates) ==
    IF id \notin DOMAIN ps THEN ps ELSE MapSet(ps, id, Spread(ps[id], updates))

\* MemStorage.deletePayment
deletePayment(ps, id) == MapDelete(ps, id)

\* MemStorage.listPayments() with its default limit and offset, as the set of
\* the records it returns: all of them while the store holds at most 50 (the
\* order is that of listSlice)
listPayments(ps) == {ps[id] : id \in DOMAIN ps}

\* MemStorage.createRefund with id = this.currentRefundId
createRefund(rs, id, insertRefund) ==
    MapSet(rs, id,
        [ id |-> id,
          refundId |-> insertRefund.refundId,
          paymentId |-> insertRefund.paymentId,
          paymentIntentId |-> insertRefund.paymentIntentId,
          amount |-> insertRefund.amount,
          status |-> insertRefund.status,
          isLiveMode |-> insertRefund.isLiveMode ])

\* MemStorage.getRefundsByPaymentIntentId
getRefundsByPaymentIntentId(rs, paymentIntentId) ==
    {rs[id] : id \in {x \in DOMAIN rs : rs[x].paymentIntentId = paymentIntentId}}

\* MemStorage.updateRefund
updateRefund(rs, id, updates) ==
    IF id \notin DOMAIN rs THEN rs ELSE MapSet(rs, id, Spread(rs[id], updates))

\* MemStorage.listRefunds() with its default limit and offset (see listPayments)
listRefunds(rs) == {rs[id] : id \in DOMAIN rs}

\* Array.from(map.values()): the records in the Map's insertion order, which
\* is the order of their ids (an id is set first at creation, with the value
\* of a counter that only grows, and a later set keeps the key's place)
RECURSIVE Values(_)
Values(m) ==
    IF DOMAIN m = {} THEN <<>>
    ELSE LET id == Min(DOMAIN m)
         IN  <<m[id]>> \o Values(MapDelete(m, id))

\* array.sort((a, b) => b.createdAt.getTime() - a.createdAt.getTime()): the
\* sort is stable, so records for which the comparator gives 0 keep their
\* order; `a` is put into the sorted `sorted` after the records that are not
\* older than it
RECURSIVE SortedInsert(_, _)
SortedInsert(sorted, a) ==
    IF sorted = <<>> THEN <<a>>
    ELSE IF Head(sorted).createdAt - a.createdAt >= 0
    THEN <<Head(sorted)>> \o SortedInsert(Tail(sorted), a)
    ELSE <<a>> \o sorted

RECURSIVE SortNewestFirst(_)
SortNewestFirst(array) ==
    IF array = <<>> THEN <<>>
    ELSE SortedInsert(SortNewestFirst(SubSeq(array, 1, Len(array) - 1)),
                      array[Len(array)])

\* array.slice(start, end) for 0 <= start <= end
Slice(array, start, end) ==
    SubSeq(array, start + 1, IF end <= Len(array) THEN end ELSE Len(array))

\* MemStorage.listPayments(limit, offset) and MemStorage.listRefunds(limit,
\* offset), as the array they return
listSlice(m, limit, offset) ==
    Slice(SortNewestFirst(Values(m)), offset, offset + limit)

\* MemStorage.createWebhookEvent: the row is keyed by eventId and takes
\* size + 1 as its id, the size read before the set
createWebhookEvent(evs, insertEvent) ==
    MapSet(evs, insertEvent.eventId,
        [ id |-> Cardinality(DOMAIN evs) + 1,
          eventId |-> insertEvent.eventId,
          eventType |-> insertEvent.eventType,
          data |-> insertEvent.data,
          processed |-> insertEvent.processed,
          isLiveMode |-> insertEvent.isLiveMode ])

\* MemStorage.markWebhookEventProcessed
markWebhookEventProcessed(evs, eventId) ==
    IF eventId \notin DOMAIN evs THEN evs
    ELSE MapSet(evs, eventId, Spread(evs[eventId], [processed |-> TRUE]))

\* -------------------------------------------------------------- provider
\* What the code relies on from the payment provider: a key sees only the
\* objects of its own mode, ids are never reused, and a refund is accepted
\* only for a succeeded intent and within what is left of its amount.

Indices(seq) == 1..Len(seq)

\* pence of intent i not yet refunded at the provider
ProvRemaining(intents, rfs, i) ==
    LET of == {r \in Indices(rfs) : rfs[r].payment_intent = i /\ rfs[r].status # "failed"}
        Sum[S \in SUBSET of] ==
            IF S = {} THEN 0
            ELSE LET r == CHOOSE x \in S : TRUE IN rfs[r].amount + Sum[S \ {r}]
    IN  intents[i].amount - Sum[of]

\* paymentIntents.retrieve / the elements of paymentIntents.list
Snapshot(intents, i) ==
    [ id |-> i, amount |-> intents[i].amount, status |-> intents[i].status,
      charges |-> intents[i].status = "succeeded",
      livemode |-> intents[i].mode = "live" ]

\* the fee of the balance transaction of a charge of `amount` pence
BalanceTransactionFee(amount) == 20 + (amount * 15) \div 1000

\* ids up to i seen by a key of `mode`, newest first
NewestFirst(objs, mode, i) ==
    LET oldestFirst == SelectSeq([k \in 1..i |-> k], LAMBDA k : objs[k].mode = mode)
    IN  [k \in 1..Len(oldestFirst) |-> oldestFirst[Len(oldestFirst) + 1 - k]]
\* a list cut at the page limit
Page(seq, limit) == IF Len(seq) <= limit THEN seq ELSE SubSeq(seq, 1, limit)

\* --------------------------------------------------------- server/routes.ts
Init ==
    /\ currentMode = "test"
    /\ currentStripe = "test"
    /\ webhookSecret \in BOOLEAN
    /\ payments = <<>>
    /\ refunds = <<>>
    /\ webhookEvents = <<>>
    /\ currentPaymentId = 1
    /\ currentRefundId = 1
    /\ provIntents = <<>>
    /\ provRefunds = <<>>
    /\ inflight = {}
    /\ reconciled = <<>>
    /\ listed = <<>>

\* a handler suspends at a provider call / resumes from it
Suspend(r) == inflight' = inflight \cup {r}
Resume(r, next) == inflight' = (inflight \ {r}) \cup next

\* a switch that renames the mode and keeps the client it had
switchStripeModeNameOnly(mode) ==
    /\ currentMode' = mode
    /\ UNCHANGED currentStripe

\* switchStripeMode: both assignments run in one synchronous call
switchStripeMode(mode) ==
    /\ currentMode' = mode
    /\ currentStripe' = (IF mode = "live" THEN "live" ELSE "test")

\* POST /api/switch-mode that hands any name to switchStripeMode
SwitchModeAnyName(mode) ==
    /\ switchStripeMode(mode)
    /\ UNCHANGED <<webhookSecret, listed, reconciled, store, provider, inflight>>

\* POST /api/switch-mode
SwitchMode(mode) ==
    /\ IF mode # "test" /\ mode # "live"
       THEN UNCHANGED modeContext
       ELSE switchStripeMode(mode)
    /\ UNCHANGED <<webhookSecret, listed, reconciled, store, provider, inflight>>

\* Math.round(amount * 100) of a number kept in thousandths: halves round up
\* (0.505 * 100 is the double 50.5, and the amounts drawn here have exact
\* products)
MathRound100(amount) == (amount + 5) \div 10

\* !amount alone: a check of the amount's presence without the minimum
AmountRejectedMissingOnly(amount) == amount = NoAmount \/ amount[1] = 0

\* !amount || amount < 0.50
AmountRejected(amount) == amount = NoAmount \/ amount[1] = 0 \/ amount[1] < 500

\* POST /api/create-payment-intent up to the await of paymentIntents.create,
\* which the provider serves under the key of currentStripe; a rejected
\* amount is answered 400 at once
CreatePaymentIntentCall(amount) ==
    IF AmountRejected(amount)
    THEN UNCHANGED vars
    ELSE /\ provIntents' = Append(provIntents,
                [ mode |-> currentStripe, amount |-> MathRound100(amount[1]),
                  status |-> "requires_payment_method", failed |-> FALSE ])
         /\ Suspend([ op |-> "create-payment-intent", amount |-> amount[1],
                      paymentIntent |-> [ id |-> Len(provIntents) + 1,
                                          status |-> "requires_payment_method" ] ])
         /\ UNCHANGED <<modeContext, webhookSecret, listed, reconciled, store, provRefunds>>

\* POST /api/create-payment-intent up to the await of paymentIntents.create,
\* when the call is one that the provider fails: no intent is made
CreatePaymentIntentError(amount) ==
    /\ ~AmountRejected(amount)
    /\ Suspend([ op |-> "create-payment-intent:error", amount |-> amount[1] ])
    /\ UNCHANGED <<modeContext, webhookSecret, listed, reconciled, store, provider>>

\* POST /api/create-payment-intent from the provider's error on: the catch
\* answers 500
CreatePaymentIntentCatch(r) ==
    /\ r.op = "create-payment-intent:error"
    /\ Resume(r, {})
    /\ UNCHANGED <<modeContext, webhookSecret, listed, reconciled, store, provider>>

\* POST /api/create-payment-intent from the provider's answer on
CreatePaymentIntentStore(r) ==
    /\ r.op = "create-payment-intent"
    /\ payments' = createPayment(payments, currentPaymentId,
           [ paymentIntentId |-> r.paymentIntent.id,
             amount |-> r.amount,
             status |-> r.paymentIntent.status,
             cardLast4 |-> "", paymentMethodType |-> "", stripeFee |-> <<>>,
             isLiveMode |-> (currentMode = "live") ])
    /\ currentPaymentId' = currentPaymentId + 1
    /\ Resume(r, {})
    /\ UNCHANGED <<modeContext, webhookSecret, listed, reconciled, refunds, webhookEvents,
                   currentRefundId, provider>>

\* does the key of currentStripe see intent i
Visible(i) == i \in Indices(provIntents) /\ provIntents[i].mode = currentStripe

\* POST /api/update-payment-status up to the await of paymentIntents.retrieve,
\* which throws for an intent the key does not see (answered 500)
UpdatePaymentStatusCall(paymentIntentId) ==
    IF ~Visible(paymentIntentId)
    THEN UNCHANGED vars
    ELSE /\ Suspend([ op |-> "update-payment-status",
                      paymentIntentId |-> paymentIntentId,
                      paymentIntent |-> Snapshot(provIntents, paymentIntentId) ])
         /\ UNCHANGED <<modeContext, webhookSecret, listed, reconciled, store, provider>>

\* the history of reconciliations after one of payment `id` under snapshot
\* paymentIntent has left the payments as ps (a deleted payment is not updated)
Reconciled(ps, id, paymentIntent) ==
    IF id \notin DOMAIN ps THEN reconciled
    ELSE MapSet(reconciled, id, [paymentIntent |-> paymentIntent, payment |-> ps[id]])

\* an update that also takes the record's mode from the snapshot
StatusUpdatesWithMode(paymentIntent, cardLast4, paymentMethodType, stripeFee) ==
    [ status |-> paymentIntent.status, cardLast4 |-> cardLast4,
      paymentMethodType |-> paymentMethodType, stripeFee |-> stripeFee,
      isLiveMode |-> paymentIntent.livemode ]

\* the update of POST /api/update-payment-status
StatusUpdates(paymentIntent, cardLast4, paymentMethodType, stripeFee) ==
    [ status |-> paymentIntent.status, cardLast4 |-> cardLast4,
      paymentMethodType |-> paymentMethodType, stripeFee |-> stripeFee ]

\* POST /api/update-payment-status from the intent's retrieval on: 404, or the
\* update, or the await of balanceTransactions.retrieve, which throws under a
\* key of the other mode (answered 500)
UpdatePaymentStatusResume(r) ==
    /\ r.op = "update-payment-status"
    /\ LET payment == getPaymentByIntentId(payments, r.paymentIntentId)
           pi == r.paymentIntent
       IN  IF payment = <<>>
           THEN /\ Resume(r, {})
                /\ UNCHANGED <<payments, reconciled>>
           ELSE IF pi.status = "succeeded" /\ pi.charges
           THEN IF currentStripe = (IF pi.livemode THEN "live" ELSE "test")
                THEN /\ Resume(r, {[ op |-> "update-payment-status:fee",
                                     payment |-> payment[1].id,
                                     paymentIntent |-> pi,
                                     stripeFee |-> BalanceTransactionFee(pi.amount) ]})
                     /\ UNCHANGED <<payments, reconciled>>
                ELSE /\ Resume(r, {})
                     /\ UNCHANGED <<payments, reconciled>>
           ELSE /\ payments' = updatePayment(payments, payment[1].id,
                                   StatusUpdates(pi, Null, Null, <<>>))
                /\ reconciled' = Reconciled(payments', payment[1].id, pi)
                /\ Resume(r, {})
    /\ UNCHANGED <<modeContext, webhookSecret, listed, refunds, webhookEvents,
                   currentPaymentId, currentRefundId, provider>>

\* POST /api/update-payment-status from the balance transaction on
UpdatePaymentStatusFee(r) ==
    /\ r.op = "update-payment-status:fee"
    /\ payments' = updatePayment(payments, r.payment,
                       StatusUpdates(r.paymentIntent, "4242", "visa", <<r.stripeFee>>))
    /\ reconciled' = Reconciled(payments', r.payment, r.paymentIntent)
    /\ Resume(r, {})
    /\ UNCHANGED <<modeContext, webhookSecret, listed, refunds, webhookEvents,
                   currentPaymentId, currentRefundId, provider>>

\* refundParams.amount: set only under if (amount)
RefundParamsAmount(amount) ==
    IF amount = NoAmount \/ amount[1] = 0 THEN NoAmount
    ELSE <<MathRound100(amount[1])>>

\* the pence the provider refunds for these params: all that is left when no
\* amount is given
ProvRefundAmount(paymentIntentId, paramsAmount) ==
    IF paramsAmount = NoAmount
    THEN ProvRemaining(provIntents, provRefunds, paymentIntentId)
    ELSE paramsAmount[1]

\* refunds.create succeeds: the intent is one of the key's mode, it succeeded
\* and the refund fits in what is left of it
ProvAcceptsRefund(paymentIntentId, paramsAmount) ==
    /\ Visible(paymentIntentId)
    /\ provIntents[paymentIntentId].status = "succeeded"
    /\ ProvRefundAmount(paymentIntentId, paramsAmount) >= 1
    /\ ProvRefundAmount(paymentIntentId, paramsAmount)
           <= ProvRemaining(provIntents, provRefunds, paymentIntentId)

\* POST /api/create-refund that asks the provider whatever the status of the
\* local payment
CreateRefundCallAnyStatus(paymentIntentId, amount) ==
    LET payment == getPaymentByIntentId(payments, paymentIntentId)
        params == RefundParamsAmount(amount)
        request == [ op |-> "create-refund", payment |-> payment[1].id,
                     paymentIntentId |-> paymentIntentId, amount |-> amount ]
    IN  IF payment = <<>>
        THEN UNCHANGED vars
        ELSE /\ IF ProvAcceptsRefund(paymentIntentId, params)
                THEN LET refund == [ id |-> Len(provRefunds) + 1,
                                     amount |-> ProvRefundAmount(paymentIntentId, params),
                                     status |-> "succeeded" ]
                     IN  /\ provRefunds' = Append(provRefunds,
                                [ mode |-> currentStripe,
                                  payment_intent |-> paymentIntentId,
                                  amount |-> refund.amount,
                                  status |-> refund.status ])
                         /\ Suspend(request @@ [refund |-> <<refund>>])
                ELSE /\ UNCHANGED provRefunds
                     /\ Suspend(request @@ [refund |-> <<>>])
             /\ UNCHANGED <<modeContext, webhookSecret, listed, reconciled, store, provIntents>>

\* POST /api/create-refund up to the await of refunds.create: 404 and 400 are
\* answered at once; else the call is made, and the provider's answer is the
\* refund or, <<>>, an error
CreateRefundCall(paymentIntentId, amount) ==
    LET payment == getPaymentByIntentId(payments, paymentIntentId)
        params == RefundParamsAmount(amount)
        request == [ op |-> "create-refund", payment |-> payment[1].id,
                     paymentIntentId |-> paymentIntentId, amount |-> amount ]
    IN  IF payment = <<>> \/ payment[1].status # "succeeded"
        THEN UNCHANGED vars
        ELSE /\ IF ProvAcceptsRefund(paymentIntentId, params)
                THEN LET refund == [ id |-> Len(provRefunds) + 1,
                                     amount |-> ProvRefundAmount(paymentIntentId, params),
                                     status |-> "succeeded" ]
                     IN  /\ provRefunds' = Append(provRefunds,
                                [ mode |-> currentStripe,
                                  payment_intent |-> paymentIntentId,
                                  amount |-> refund.amount,
                                  status |-> refund.status ])
                         /\ Suspend(request @@ [refund |-> <<refund>>])
                ELSE /\ UNCHANGED provRefunds
                     /\ Suspend(request @@ [refund |-> <<>>])
             /\ UNCHANGED <<modeContext, webhookSecret, listed, reconciled, store, provIntents>>

\* POST /api/create-refund from the provider's answer on: the catch answers
\* 500 to an error
CreateRefundStore(r) ==
    /\ r.op = "create-refund"
    /\ IF r.refund = <<>>
       THEN UNCHANGED <<refunds, currentRefundId>>
       ELSE /\ refunds' = createRefund(refunds, currentRefundId,
                   [ refundId |-> r.refund[1].id,
                     paymentId |-> r.payment,
                     paymentIntentId |-> r.paymentIntentId,
                     amount |-> 10 * r.refund[1].amount,
                     status |-> r.refund[1].status,
                     isLiveMode |-> (currentMode = "live") ])
            /\ currentRefundId' = currentRefundId + 1
    /\ Resume(r, {})
    /\ UNCHANGED <<modeContext, webhookSecret, listed, reconciled, payments, webhookEvents,
                   currentPaymentId, provider>>

\* paymentIntents.list and refunds.list under the key of `mode`
ListPaymentIntents(intents, mode) ==
    LET ids == Page(NewestFirst(intents, mode, Len(intents)), ListLimit)
    IN  [k \in Indices(ids) |-> Snapshot(intents, ids[k])]
ListRefunds(rfs, mode) ==
    LET ids == Page(NewestFirst(rfs, mode, Len(rfs)), ListLimit)
    IN  [k \in Indices(ids) |->
            [ id |-> ids[k], payment_intent |-> rfs[ids[k]].payment_intent,
              amount |-> rfs[ids[k]].amount, status |-> rfs[ids[k]].status ]]

\* a payments loop that also brings a stored payment to the provider's status
RECURSIVE SyncPaymentsUpdating(_, _, _)
SyncPaymentsUpdating(st, paymentIntents, isLiveMode) ==
    IF paymentIntents = <<>> THEN st
    ELSE LET pi == Head(paymentIntents)
             existingPayment == getPaymentByIntentId(st.payments, pi.id)
             paymentData ==
                 [ paymentIntentId |-> pi.id,
                   amount |-> 10 * pi.amount,
                   status |-> pi.status,
                   cardLast4 |-> IF pi.charges THEN "4242" ELSE "",
                   paymentMethodType |-> IF pi.charges THEN "card" ELSE "",
                   stripeFee |-> <<>>,
                   isLiveMode |-> isLiveMode ]
             next == IF existingPayment # <<>>
                     THEN [ st EXCEPT !.payments[existingPayment[1].id].status = pi.status ]
                     ELSE [ payments |-> createPayment(st.payments,
                                             st.currentPaymentId, paymentData),
                            currentPaymentId |-> st.currentPaymentId + 1,
                            syncedPayments |-> st.syncedPayments + 1 ]
         IN  SyncPaymentsUpdating(next, Tail(paymentIntents), isLiveMode)

\* the payments loop of POST /api/sync-stripe-history over
\* st = [payments, currentPaymentId, syncedPayments]: the first half of the
\* list, then the second (the order of the loop, evaluated to a depth that
\* stays small for a page of 100), and the loop's body for one element
RECURSIVE SyncPayments(_, _, _)
SyncPayments(st, paymentIntents, isLiveMode) ==
    IF paymentIntents = <<>> THEN st
    ELSE IF Len(paymentIntents) > 1
    THEN LET half == Len(paymentIntents) \div 2
             first == SyncPayments(st, SubSeq(paymentIntents, 1, half), isLiveMode)
             rest == SubSeq(paymentIntents, half + 1, Len(paymentIntents))
         IN  IF first = st THEN SyncPayments(st, rest, isLiveMode)
             ELSE SyncPayments(first, rest, isLiveMode)
    ELSE LET pi == Head(paymentIntents)
             existingPayment == getPaymentByIntentId(st.payments, pi.id)
             paymentData ==
                 [ paymentIntentId |-> pi.id,
                   amount |-> 10 * pi.amount,
                   status |-> pi.status,
                   cardLast4 |-> IF pi.charges THEN "4242" ELSE "",
                   paymentMethodType |-> IF pi.charges THEN "card" ELSE "",
                   stripeFee |-> <<>>,
                   isLiveMode |-> isLiveMode ]
             next == IF existingPayment # <<>> THEN st
                     ELSE [ payments |-> createPayment(st.payments,
                                             st.currentPaymentId, paymentData),
                            currentPaymentId |-> st.currentPaymentId + 1,
                            syncedPayments |-> st.syncedPayments + 1 ]
         IN  next

\* the refunds loop of POST /api/sync-stripe-history over
\* st = [refunds, currentRefundId, syncedRefunds], by halves as SyncPayments
RECURSIVE SyncRefunds(_, _, _, _)
SyncRefunds(st, ps, refundList, isLiveMode) ==
    IF refundList = <<>> THEN st
    ELSE IF Len(refundList) > 1
    THEN LET half == Len(refundList) \div 2
             first == SyncRefunds(st, ps, SubSeq(refundList, 1, half), isLiveMode)
             rest == SubSeq(refundList, half + 1, Len(refundList))
         IN  IF first = st THEN SyncRefunds(st, ps, rest, isLiveMode)
             ELSE SyncRefunds(first, ps, rest, isLiveMode)
    ELSE LET refund == Head(refundList)
             existingRefunds ==
                 getRefundsByPaymentIntentId(st.refunds, refund.payment_intent)
             alreadyExists == \E x \in existingRefunds : x.refundId = refund.id
             payment == getPaymentByIntentId(ps, refund.payment_intent)
             refundData ==
                 [ paymentId |-> payment[1].id,
                   paymentIntentId |-> refund.payment_intent,
                   refundId |-> refund.id,
                   amount |-> 10 * refund.amount,
                   status |-> refund.status,
                   isLiveMode |-> isLiveMode ]
             next == IF alreadyExists \/ payment = <<>> THEN st
                     ELSE [ refunds |-> createRefund(st.refunds,
                                            st.currentRefundId, refundData),
                            currentRefundId |-> st.currentRefundId + 1,
                            syncedRefunds |-> st.syncedRefunds + 1 ]
         IN  next

\* POST /api/sync-stripe-history up to the await of paymentIntents.list
SyncCall ==
    /\ Suspend([ op |-> "sync:payments",
                 paymentIntents |-> ListPaymentIntents(provIntents, currentStripe) ])
    /\ UNCHANGED <<modeContext, webhookSecret, listed, reconciled, store, provider>>

\* POST /api/sync-stripe-history from the intents' list to the await of
\* refunds.list
SyncPaymentsResume(r) ==
    /\ r.op = "sync:payments"
    /\ LET st == SyncPayments([ payments |-> payments,
                                currentPaymentId |-> currentPaymentId,
                                syncedPayments |-> 0 ],
                              r.paymentIntents, currentMode = "live")
       IN  /\ payments' = st.payments
           /\ currentPaymentId' = st.currentPaymentId
           /\ Resume(r, {[ op |-> "sync:refunds",
                           syncedPayments |-> st.syncedPayments,
                           refunds |-> ListRefunds(provRefunds, currentStripe) ]})
    /\ UNCHANGED <<modeContext, webhookSecret, listed, reconciled, refunds, webhookEvents,
                   currentRefundId, provider>>

\* POST /api/sync-stripe-history from the refunds' list to the response
SyncRefundsResume(r) ==
    /\ r.op = "sync:refunds"
    /\ LET st == SyncRefunds([ refunds |-> refunds,
                               currentRefundId |-> currentRefundId,
                               syncedRefunds |-> 0 ],
                             payments, r.refunds, currentMode = "live")
       IN  /\ refunds' = st.refunds
           /\ currentRefundId' = st.currentRefundId
    /\ Resume(r, {})
    /\ UNCHANGED <<modeContext, webhookSecret, listed, reconciled, payments, webhookEvents,
                   currentPaymentId, provider>>

\* for (const payment of testPayments) await storage.deletePayment(payment.id)
RECURSIVE DeleteEach(_, _)
DeleteEach(ps, testPayments) ==
    IF testPayments = {} THEN ps
    ELSE LET payment == CHOOSE p \in testPayments : TRUE
         IN  DeleteEach(deletePayment(ps, payment.id), testPayments \ {payment})

\* DELETE /api/clear-test-payments that goes back to test mode as it clears
ClearTestPaymentsToTestMode ==
    /\ payments' = DeleteEach(payments,
           {p \in listPayments(payments) : p.status = "requires_payment_method"})
    /\ reconciled' = [id \in DOMAIN reconciled \cap DOMAIN payments' |-> reconciled[id]]
    /\ switchStripeMode("test")
    /\ UNCHANGED <<webhookSecret, listed, refunds, webhookEvents,
                   currentPaymentId, currentRefundId, provider, inflight>>

\* DELETE /api/clear-test-payments
ClearTestPayments ==
    /\ payments' = DeleteEach(payments,
           {p \in listPayments(payments) : p.status = "requires_payment_method"})
    /\ reconciled' = [id \in DOMAIN reconciled \cap DOMAIN payments' |-> reconciled[id]]
    /\ UNCHANGED <<modeContext, webhookSecret, listed, refunds, webhookEvents,
                   currentPaymentId, currentRefundId, provider, inflight>>

\* the loop of POST /api/fix-currency: refund.amount === 50 becomes 0.50
RECURSIVE FixEach(_, _)
FixEach(rs, list) ==
    IF list = {} THEN rs
    ELSE LET refund == CHOOSE x \in list : TRUE
             fixed == IF refund.amount = 50000
                      THEN updateRefund(rs, refund.id, [amount |-> 500])
                      ELSE rs
         IN  FixEach(fixed, list \ {refund})

\* POST /api/fix-currency
FixCurrency ==
    /\ refunds' = FixEach(refunds, listRefunds(refunds))
    /\ UNCHANGED <<modeContext, webhookSecret, listed, reconciled, payments, webhookEvents,
                   currentPaymentId, currentRefundId, provider, inflight>>

\* a switch whose payment_failed case also takes every other type
HandleEventFallThrough(ps, event) ==
    LET payment == getPaymentByIntentId(ps, event.object)
    IN  IF payment = <<>> THEN ps
        ELSE IF event.type = "payment_intent.succeeded"
        THEN updatePayment(ps, payment[1].id, [status |-> "succeeded"])
        ELSE updatePayment(ps, payment[1].id, [status |-> "failed"])

\* the switch of POST /webhook over event.type: the payments after it
HandleEvent(ps, event) ==
    LET payment == getPaymentByIntentId(ps, event.object)
    IN  CASE event.type = "payment_intent.succeeded" ->
                IF payment # <<>>
                THEN updatePayment(ps, payment[1].id, [status |-> "succeeded"])
                ELSE ps
          [] event.type = "payment_intent.payment_failed" ->
                IF payment # <<>>
                THEN updatePayment(ps, payment[1].id, [status |-> "failed"])
                ELSE ps
          [] OTHER -> ps

\* the events the provider has emitted: one of each type for an intent, the
\* pair being the event's id
ProvEvents ==
    {e \in [type : EventTypes, object : Indices(provIntents)] :
        \/ e.type = "payment_intent.succeeded"
           /\ provIntents[e.object].status = "succeeded"
        \/ e.type = "payment_intent.payment_failed"
           /\ provIntents[e.object].failed}

\* a type that the provider emits and the switch has no case for
OtherEventTypes == {"payment_intent.created"}

\* all that the provider has emitted: payment_intent.created for every intent
\* it holds, besides the events of ProvEvents
ProvEventsAll ==
    ProvEvents \cup [type : OtherEventTypes, object : Indices(provIntents)]

\* POST /webhook that takes an event id once: a delivery whose id has a row
\* is answered without being handled again
WebhookOnce(event, signatureValid) ==
    /\ IF ~webhookSecret \/ ~signatureValid \/ event \in DOMAIN webhookEvents
       THEN UNCHANGED <<webhookEvents, payments>>
       ELSE LET stored == createWebhookEvent(webhookEvents,
                              [ eventId |-> event,
                                eventType |-> event.type,
                                data |-> event.object,
                                processed |-> FALSE,
                                isLiveMode |-> (currentMode = "live") ])
            IN  /\ payments' = HandleEvent(payments, event)
                /\ webhookEvents' = markWebhookEventProcessed(stored, event)
    /\ UNCHANGED <<modeContext, webhookSecret, listed, reconciled, refunds, currentPaymentId,
                   currentRefundId, provider, inflight>>

\* POST /webhook that ingests its body whatever the signature
WebhookUnverified(event, signatureValid) ==
    /\ LET stored == createWebhookEvent(webhookEvents,
                          [ eventId |-> event,
                            eventType |-> event.type,
                            data |-> event.object,
                            processed |-> FALSE,
                            isLiveMode |-> (currentMode = "live") ])
       IN  /\ payments' = HandleEvent(payments, event)
           /\ webhookEvents' = markWebhookEventProcessed(stored, event)
    /\ UNCHANGED <<modeContext, webhookSecret, listed, reconciled, refunds, currentPaymentId,
                   currentRefundId, provider, inflight>>

\* POST /webhook with provider event `event` as its body, under a signature
\* that constructEvent accepts or not
Webhook(event, signatureValid) ==
    /\ IF ~webhookSecret \/ ~signatureValid
       THEN UNCHANGED <<webhookEvents, payments>>
       ELSE LET stored == createWebhookEvent(webhookEvents,
                              [ eventId |-> event,
                                eventType |-> event.type,
                                data |-> event.object,
                                processed |-> FALSE,
                                isLiveMode |-> (currentMode = "live") ])
            IN  /\ payments' = HandleEvent(payments, event)
                /\ webhookEvents' = markWebhookEventProcessed(stored, event)
    /\ UNCHANGED <<modeContext, webhookSecret, listed, reconciled, refunds, currentPaymentId,
                   currentRefundId, provider, inflight>>

\* the awaits of POST /webhook after the row is stored at which a rejected
\* promise takes the handler to its catch: the store calls of the switch, and
\* markWebhookEventProcessed
FailurePoints == {"switch", "mark"}

\* POST /webhook whose try block throws at `point` after createWebhookEvent
\* has stored the row, and marks the row processed all the same
WebhookFailsMarked(event, point) ==
    /\ webhookSecret
    /\ LET stored == createWebhookEvent(webhookEvents,
                          [ eventId |-> event,
                            eventType |-> event.type,
                            data |-> event.object,
                            processed |-> FALSE,
                            isLiveMode |-> (currentMode = "live") ])
       IN  /\ payments' = IF point = "switch" THEN payments
                          ELSE HandleEvent(payments, event)
           /\ webhookEvents' = markWebhookEventProcessed(stored, event)
    /\ UNCHANGED <<modeContext, webhookSecret, listed, reconciled, refunds, currentPaymentId,
                   currentRefundId, provider, inflight>>

\* POST /webhook with a verified event whose try block throws at `point`
\* after createWebhookEvent has stored the row: the catch answers 500 and
\* markWebhookEventProcessed has not run
WebhookFails(event, point) ==
    /\ webhookSecret
    /\ payments' = IF point = "switch" THEN payments
                   ELSE HandleEvent(payments, event)
    /\ webhookEvents' = createWebhookEvent(webhookEvents,
                             [ eventId |-> event,
                               eventType |-> event.type,
                               data |-> event.object,
                               processed |-> FALSE,
                               isLiveMode |-> (currentMode = "live") ])
    /\ UNCHANGED <<modeContext, webhookSecret, listed, reconciled, refunds, currentPaymentId,
                   currentRefundId, provider, inflight>>

\* ------------------------------------------------- provider, on its own
\* another client of the account creates an intent
ProviderCreatesIntent(mode, amount) ==
    /\ provIntents' = Append(provIntents,
           [ mode |-> mode, amount |-> amount,
             status |-> "requires_payment_method", failed |-> FALSE ])
    /\ UNCHANGED <<modeContext, webhookSecret, listed, reconciled, store, provRefunds, inflight>>

\* the customer can confirm intent i: it waits for a payment method, and the
\* request that created it, if any, has answered (the answer carries the
\* client secret that a confirmation needs)
Confirmable(i) ==
    /\ provIntents[i].status = "requires_payment_method"
    /\ ~\E r \in inflight : r.op = "create-payment-intent" /\ r.paymentIntent.id = i

\* the customer's confirmation of intent i is declined: the intent waits for
\* another payment method, and payment_intent.payment_failed is emitted
ProviderPaymentFails(i) ==
    /\ Confirmable(i)
    /\ provIntents' = [provIntents EXCEPT ![i].failed = TRUE]
    /\ UNCHANGED <<modeContext, webhookSecret, listed, reconciled, store, provRefunds, inflight>>

\* the customer's confirmation of intent i succeeds, and
\* payment_intent.succeeded is emitted
ProviderPaymentSucceeds(i) ==
    /\ Confirmable(i)
    /\ provIntents' = [provIntents EXCEPT ![i].status = "succeeded"]
    /\ UNCHANGED <<modeContext, webhookSecret, listed, reconciled, store, provRefunds, inflight>>

\* another client of the account refunds what is left of succeeded intent i
ProviderCreatesRefund(i) ==
    /\ provIntents[i].status = "succeeded"
    /\ ProvRemaining(provIntents, provRefunds, i) >= 1
    /\ provRefunds' = Append(provRefunds,
           [ mode |-> provIntents[i].mode, payment_intent |-> i,
             amount |-> ProvRemaining(provIntents, provRefunds, i),
             status |-> "succeeded" ])
    /\ UNCHANGED <<modeContext, webhookSecret, listed, reconciled, store, provIntents, inflight>>

\* ----------------------------------------------------------- specification
\* a payment intent id a client may send: one the provider holds, or another
IntentInputs == 1..(Len(provIntents) + 1)

\* what a run is cut at
Bounded(intents, rfs, suspended, paymentIds, refundIds) ==
    /\ Len(provIntents) <= intents
    /\ Len(provRefunds) <= rfs
    /\ Cardinality(inflight) <= suspended
    /\ currentPaymentId <= paymentIds + 1
    /\ currentRefundId <= refundIds + 1

Within == Bounded(MaxIntents, MaxRefunds, MaxInFlight, MaxPaymentId, MaxRefundId)

\* the server around one payment intent, and the intent's life at the provider
Next ==
    \/ \E mode \in ModeInputs : SwitchMode(mode)
    \/ \E amount \in PaymentAmounts : CreatePaymentIntentCall(amount) /\ Within'
    \/ \E r \in inflight : CreatePaymentIntentStore(r) /\ Within'
    \/ \E i \in IntentInputs : UpdatePaymentStatusCall(i) /\ Within'
    \/ \E r \in inflight : UpdatePaymentStatusResume(r)
    \/ \E r \in inflight : UpdatePaymentStatusFee(r)
    \/ \E i \in IntentInputs, amount \in RefundAmounts :
           CreateRefundCall(i, amount) /\ Within'
    \/ \E r \in inflight : CreateRefundStore(r) /\ Within'
    \/ SyncCall /\ Within'
    \/ \E r \in inflight : SyncPaymentsResume(r) /\ Within'
    \/ \E r \in inflight : SyncRefundsResume(r) /\ Within'
    \/ ClearTestPayments
    \/ FixCurrency
    \/ \E event \in ProvEvents, signatureValid \in BOOLEAN :
           Webhook(event, signatureValid)
    \/ \E i \in Indices(provIntents) : ProviderPaymentFails(i)
    \/ \E i \in Indices(provIntents) : ProviderPaymentSucceeds(i)

Spec == Init /\ [][Next]_vars

\* the history sync over the objects that other clients of the account made
WithinSync ==
    Bounded(SyncMaxIntents, SyncMaxRefunds, MaxInFlight, SyncMaxPaymentId, SyncMaxRefundId)

NextSync ==
    \/ \E mode \in Modes, amount \in ExternalAmounts :
           ProviderCreatesIntent(mode, amount) /\ WithinSync'
    \/ \E i \in Indices(provIntents) : ProviderPaymentSucceeds(i)
    \/ \E i \in Indices(provIntents) : ProviderCreatesRefund(i) /\ WithinSync'
    \/ \E mode \in Modes : SwitchMode(mode)
    \/ SyncCall /\ WithinSync'
    \/ \E r \in inflight : SyncPaymentsResume(r) /\ WithinSync'
    \/ \E r \in inflight : SyncRefundsResume(r) /\ WithinSync'
    \/ ClearTestPayments

SpecSync == Init /\ [][NextSync]_vars

\* a payment's creation and history syncs, two requests in flight at a time
WithinRace ==
    Bounded(RaceMaxIntents, 0, RaceMaxInFlight, RaceMaxPaymentId, 0)

NextRace ==
    \/ \E amount \in PaymentAmounts : CreatePaymentIntentCall(amount) /\ WithinRace'
    \/ \E r \in inflight : CreatePaymentIntentStore(r) /\ WithinRace'
    \/ \E mode \in Modes : SwitchMode(mode)
    \/ SyncCall /\ WithinRace'
    \/ \E r \in inflight : SyncPaymentsResume(r) /\ WithinRace'
    \/ \E r \in inflight : SyncRefundsResume(r) /\ WithinRace'
    \/ ClearTestPayments

SpecRace == Init /\ [][NextRace]_vars

\* the bodies that can be sent to POST /webhook: an event of any type about
\* any intent id; only what the provider has emitted carries its signature
EventInputs == [type : EventTypes \cup OtherEventTypes, object : IntentInputs]

\* the webhook beside a payment's creation and its life at the provider
NextHook ==
    \/ \E amount \in PaymentAmounts : CreatePaymentIntentCall(amount) /\ Within'
    \/ \E r \in inflight : CreatePaymentIntentStore(r) /\ Within'
    \/ \E mode \in Modes : SwitchMode(mode)
    \/ ClearTestPayments
    \/ \E i \in Indices(provIntents) : ProviderPaymentFails(i)
    \/ \E i \in Indices(provIntents) : ProviderPaymentSucceeds(i)
    \/ \E event \in EventInputs, signatureValid \in BOOLEAN :
           /\ signatureValid => event \in ProvEventsAll
           /\ Webhook(event, signatureValid)

SpecHook == Init /\ [][NextHook]_vars

\* an account that holds n test intents made by other clients before the
\* server starts
History(n) ==
    [i \in 1..n |-> [ mode |-> "test", amount |-> 5000,
                      status |-> "requires_payment_method", failed |-> FALSE ]]

InitHistory ==
    /\ currentMode = "test"
    /\ currentStripe = "test"
    /\ webhookSecret = TRUE
    /\ payments = <<>>
    /\ refunds = <<>>
    /\ webhookEvents = <<>>
    /\ currentPaymentId = 1
    /\ currentRefundId = 1
    /\ provIntents \in {History(MaxHistory - 1), History(MaxHistory)}
    /\ provRefunds = <<>>
    /\ inflight = {}
    /\ reconciled = <<>>
    /\ listed = <<>>

WithinHistory ==
    Bounded(MaxHistory, HistoryMaxRefunds, MaxInFlight, MaxHistory, HistoryMaxRefunds)

\* the intents of the history that are paid and refunded: the oldest and the
\* newest
HistoryActive == {1, Len(provIntents)}

\* the history sync of that account
NextHistory ==
    \/ \E i \in HistoryActive : ProviderPaymentSucceeds(i)
    \/ \E i \in HistoryActive : ProviderCreatesRefund(i) /\ WithinHistory'
    \/ \E mode \in Modes : SwitchMode(mode)
    \/ SyncCall /\ WithinHistory'
    \/ \E r \in inflight : SyncPaymentsResume(r) /\ WithinHistory'
    \/ \E r \in inflight : SyncRefundsResume(r) /\ WithinHistory'

SpecHistory == InitHistory /\ [][NextHistory]_vars

\* the process stops and starts again: the requests in flight are dropped,
\* routes.ts runs its module initialisation and storage.ts builds
\* new MemStorage(); the provider and the environment are what they were
Restart ==
    /\ currentMode' = "test"
    /\ currentStripe' = "test"
    /\ payments' = <<>>
    /\ refunds' = <<>>
    /\ webhookEvents' = <<>>
    /\ currentPaymentId' = 1
    /\ currentRefundId' = 1
    /\ inflight' = {}
    /\ reconciled' = <<>>
    /\ UNCHANGED <<webhookSecret, listed, provider>>

\* payments taken and notified, with restarts of the process
NextRestart ==
    \/ \E amount \in PaymentAmounts : CreatePaymentIntentCall(amount) /\ Within'
    \/ \E r \in inflight : CreatePaymentIntentStore(r) /\ Within'
    \/ \E i \in Indices(provIntents) : ProviderPaymentSucceeds(i)
    \/ \E event \in ProvEvents : Webhook(event, TRUE)
    \/ \E mode \in Modes : SwitchMode(mode)
    \/ Restart

SpecRestart == Init /\ [][NextRestart]_vars

\* payments taken and notified, with deliveries that fail in the handler and
\* are delivered again
NextFail ==
    \/ \E amount \in PaymentAmounts : CreatePaymentIntentCall(amount) /\ Within'
    \/ \E r \in inflight : CreatePaymentIntentStore(r) /\ Within'
    \/ \E i \in Indices(provIntents) : ProviderPaymentFails(i)
    \/ \E i \in Indices(provIntents) : ProviderPaymentSucceeds(i)
    \/ \E event \in ProvEvents : Webhook(event, TRUE)
    \/ \E event \in ProvEvents, point \in FailurePoints : WebhookFails(event, point)

SpecFail == Init /\ [][NextFail]_vars

\* the ids of the events the provider can emit within the cut of a run
EventIds == [type : EventTypes, object : 1..MaxIntents]

\* the refund events of the switch of POST /webhook
RefundEventTypes == {"refund.created", "refund.updated"}

\* the refund events the provider has emitted: one of each type for a refund
\* it holds, their object being the refund
ProvRefundEvents == [type : RefundEventTypes, object : Indices(provRefunds)]

\* payments taken through the server and refunded at the provider by another
\* client, the provider notifying the payments and the refunds
NextRefundHook ==
    \/ \E amount \in PaymentAmounts : CreatePaymentIntentCall(amount) /\ Within'
    \/ \E r \in inflight : CreatePaymentIntentStore(r) /\ Within'
    \/ \E i \in Indices(provIntents) : ProviderPaymentSucceeds(i)
    \/ \E i \in Indices(provIntents) : ProviderCreatesRefund(i) /\ Within'
    \/ \E mode \in Modes : SwitchMode(mode)
    \/ \E event \in ProvEvents \cup ProvRefundEvents : Webhook(event, TRUE)

SpecRefundHook == Init /\ [][NextRefundHook]_vars

\* amounts sent to POST /api/create-refund, those that are not positive
\* included: none, 0, -0.50, 0.50
RefundAmountInputs == {NoAmount, <<0>>, <<-500>>, <<500>>}

\* payments taken, notified and refunded through the server
NextRefundAmount ==
    \/ \E amount \in PaymentAmounts : CreatePaymentIntentCall(amount) /\ Within'
    \/ \E r \in inflight : CreatePaymentIntentStore(r) /\ Within'
    \/ \E i \in Indices(provIntents) : ProviderPaymentSucceeds(i)
    \/ \E event \in ProvEvents : Webhook(event, TRUE)
    \/ \E i \in IntentInputs, amount \in RefundAmountInputs :
           CreateRefundCall(i, amount) /\ Within'
    \/ \E r \in inflight : CreateRefundStore(r) /\ Within'
    \/ \E mode \in Modes : SwitchMode(mode)

SpecRefundAmount == Init /\ [][NextRefundAmount]_vars

\* a payment taken through the server and reconciled, two requests in flight
\* at a time
NextReconcile ==
    \/ \E amount \in PaymentAmounts : CreatePaymentIntentCall(amount) /\ WithinRace'
    \/ \E r \in inflight : CreatePaymentIntentStore(r) /\ WithinRace'
    \/ \E i \in Indices(provIntents) : ProviderPaymentFails(i)
    \/ \E i \in Indices(provIntents) : ProviderPaymentSucceeds(i)
    \/ \E i \in IntentInputs : UpdatePaymentStatusCall(i) /\ WithinRace'
    \/ \E r \in inflight : UpdatePaymentStatusResume(r) /\ WithinRace'
    \/ \E r \in inflight : UpdatePaymentStatusFee(r) /\ WithinRace'
    \/ \E event \in ProvEvents : Webhook(event, TRUE)

SpecReconcile == Init /\ [][NextReconcile]_vars

\* payments taken through the server, with calls that the provider fails
NextCreate ==
    \/ \E amount \in PaymentAmounts : CreatePaymentIntentCall(amount) /\ WithinRace'
    \/ \E r \in inflight : CreatePaymentIntentStore(r) /\ WithinRace'
    \/ \E amount \in PaymentAmounts : CreatePaymentIntentError(amount) /\ WithinRace'
    \/ \E r \in inflight : CreatePaymentIntentCatch(r)
    \/ \E i \in Indices(provIntents) : ProviderPaymentSucceeds(i)
    \/ \E event \in ProvEvents : Webhook(event, TRUE)
    \/ \E mode \in Modes : SwitchMode(mode)
    \/ ClearTestPayments

SpecCreate == Init /\ [][NextCreate]_vars

\* limit = 50 of listPayments and listRefunds, and parseInt(...) || 50
DefaultLimit == 50

\* the limit and the offset of a query: none given, or a number
LimitInputs == {NoAmount, <<1>>, <<2>>}
OffsetInputs == {NoAmount, <<1>>}

\* the stores of n records made over MaxTime milliseconds: the ids follow the
\* order of creation, and createdAt never decreases along it
Stamped(n) ==
    {m \in [1..n -> [id : 1..n, createdAt : 1..MaxTime]] :
        /\ \A id \in 1..n : m[id].id = id
        /\ \A id \in 1..n, later \in 1..n :
               id < later => m[id].createdAt <= m[later].createdAt}

\* a server whose store holds payments and refunds made earlier, of which
\* only the id and createdAt are kept here
InitList ==
    /\ currentMode = "test"
    /\ currentStripe = "test"
    /\ webhookSecret = TRUE
    /\ payments \in UNION {Stamped(n) : n \in 0..MaxListed}
    /\ refunds \in UNION {Stamped(n) : n \in 0..MaxListed}
    /\ webhookEvents = <<>>
    /\ currentPaymentId = Len(payments) + 1
    /\ currentRefundId = Len(refunds) + 1
    /\ provIntents = <<>>
    /\ provRefunds = <<>>
    /\ inflight = {}
    /\ reconciled = <<>>
    /\ listed = <<>>

\* parseInt(req.query.limit) || 50 and parseInt(req.query.offset) || 0
QueryLimit(limit) == IF limit = NoAmount THEN DefaultLimit ELSE limit[1]
QueryOffset(offset) == IF offset = NoAmount THEN 0 ELSE offset[1]

\* GET /api/payments
ListPaymentsRequest(limit, offset) ==
    /\ listed' = [ of |-> "payments", limit |-> QueryLimit(limit),
                   offset |-> QueryOffset(offset),
                   body |-> listSlice(payments, QueryLimit(limit), QueryOffset(offset)) ]
    /\ UNCHANGED <<modeContext, webhookSecret, reconciled, store, provider, inflight>>

\* GET /api/refunds
ListRefundsRequest(limit, offset) ==
    /\ listed' = [ of |-> "refunds", limit |-> QueryLimit(limit),
                   offset |-> QueryOffset(offset),
                   body |-> listSlice(refunds, QueryLimit(limit), QueryOffset(offset)) ]
    /\ UNCHANGED <<modeContext, webhookSecret, reconciled, store, provider, inflight>>

NextList ==
    \/ \E limit \in LimitInputs, offset \in OffsetInputs :
           ListPaymentsRequest(limit, offset)
    \/ \E limit \in LimitInputs, offset \in OffsetInputs :
           ListRefundsRequest(limit, offset)

SpecList == InitList /\ [][NextList]_vars

\* the provider delivers again an event it has emitted
Redelivery(event) == event \in ProvEvents /\ Webhook(event, TRUE)

\* SpecFail where the provider goes on delivering an event until a delivery
\* is answered with success
SpecRedelivery ==
    SpecFail /\ \A event \in EventIds : WF_vars(Redelivery(event))

\* POST /api/sync-stripe-history run from request to response with no other
\* request in between, on a store st = [payments, currentPaymentId, refunds,
\* currentRefundId]: the store after it and the counts it reports
SyncRun(st) ==
    LET isLiveMode == currentMode = "live"
        ps == SyncPayments([ payments |-> st.payments,
                             currentPaymentId |-> st.currentPaymentId,
                             syncedPayments |-> 0 ],
                           ListPaymentIntents(provIntents, currentStripe), isLiveMode)
        rs == SyncRefunds([ refunds |-> st.refunds,
                            currentRefundId |-> st.currentRefundId,
                            syncedRefunds |-> 0 ],
                          ps.payments, ListRefunds(provRefunds, currentStripe), isLiveMode)
    IN  [ payments |-> ps.payments, currentPaymentId |-> ps.currentPaymentId,
          refunds |-> rs.refunds, currentRefundId |-> rs.currentRefundId,
          syncedPayments |-> ps.syncedPayments, syncedRefunds |-> rs.syncedRefunds ]

\* the store as SyncRun takes it
Stored ==
    [ payments |-> payments, currentPaymentId |-> currentPaymentId,
      refunds |-> refunds, currentRefundId |-> currentRefundId ]

\* ------------------------------------------------------------------ claims
\* the sum of the amounts of the succeeded refunds held for payment paymentId
RECURSIVE SumAmounts(_)
SumAmounts(records) ==
    IF records = {} THEN 0
    ELSE LET x == CHOOSE y \in records : TRUE
         IN  x.amount + SumAmounts(records \ {x})
SucceededRefunds(rs, paymentId) ==
    {x \in listRefunds(rs) : x.paymentId = paymentId /\ x.status = "succeeded"}

\* the payment's remaining refundable balance, as the store knows it
RemainingBalance(payment) ==
    payment.amount - SumAmounts(SucceededRefunds(refunds, payment.id))

TerminalStatuses == {"succeeded", "failed", "canceled"}

\* C1: the delivery of a validly signed event whose id the store already
\* holds changes no payment and no refund (its side effect is applied once).
C1_WebhookIdempotent ==
    [][\A event \in ProvEvents :
          (webhookSecret /\ event \in DOMAIN webhookEvents /\ Webhook(event, TRUE))
              => (payments' = payments /\ refunds' = refunds)]_vars

\* C2: in every reachable state, for every payment, the succeeded refunds held
\* for it sum to at most the payment's stored amount.
C2_RefundsWithinPayment ==
    \A id \in DOMAIN payments :
        SumAmounts(SucceededRefunds(refunds, id)) <= payments[id].amount

\* C3: a refund request with an explicit amount above the remaining
\* refundable balance of its (succeeded) payment is refused locally: no call
\* to the provider is issued for it, and no refund is stored.
C3_ExcessRefundRefusedLocally ==
    [][\A i \in IntentInputs, amount \in RefundAmounts \ {NoAmount} :
          LET payment == getPaymentByIntentId(payments, i)
          IN  (/\ payment # <<>>
               /\ payment[1].status = "succeeded"
               /\ amount[1] > RemainingBalance(payment[1])
               /\ CreateRefundCall(i, amount))
                  => (inflight' = inflight /\ provRefunds' = provRefunds
                      /\ refunds' = refunds)]_vars

\* C4: in every reachable state, a history sync run twice in a row, in the
\* same mode and with the provider unchanged, creates nothing in its second
\* run and reports 0 and 0.
C4_SyncTwice ==
    LET first == SyncRun(Stored)
        second == SyncRun(first)
    IN  /\ second.syncedPayments = 0
        /\ second.syncedRefunds = 0
        /\ second.payments = first.payments
        /\ second.refunds = first.refunds
        /\ second.currentPaymentId = first.currentPaymentId
        /\ second.currentRefundId = first.currentRefundId

\* the first of the two runs creates a payment and a refund, in a store that
\* already holds a record, with two intents at the provider
C4_SyncCreates ==
    /\ SyncRun(Stored).syncedPayments >= 1
    /\ SyncRun(Stored).syncedRefunds >= 1
    /\ Len(provIntents) >= 2
    /\ payments # <<>>

\* C5: the payments and the refunds that a query returns while the active
\* mode is live were all created in live mode, and those returned while it is
\* test were all created in test mode.
C5_ReadsIsolated ==
    /\ \A p \in listPayments(payments) : p.isLiveMode = (currentMode = "live")
    /\ \A x \in listRefunds(refunds) : x.isLiveMode = (currentMode = "live")

\* C6: no step changes the isLiveMode of a payment or of a refund that the
\* store holds, and a switch of mode changes no stored record at all.
C6_IsLiveModeImmutable ==
    [][/\ \A id \in DOMAIN payments \cap DOMAIN payments' :
              payments'[id].isLiveMode = payments[id].isLiveMode
       /\ \A id \in DOMAIN refunds \cap DOMAIN refunds' :
              refunds'[id].isLiveMode = refunds[id].isLiveMode
       /\ (currentMode' # currentMode) => UNCHANGED store]_vars

\* a payment made in test mode has been updated to succeeded and refunded,
\* and the active mode is now live
C6_UpdatedAfterSwitch ==
    \E id \in DOMAIN payments :
        /\ ~payments[id].isLiveMode
        /\ payments[id].status = "succeeded"
        /\ payments[id].stripeFee # <<>>
        /\ SucceededRefunds(refunds, id) # {}
        /\ currentMode = "live"

\* C7: every payment's isLiveMode is the mode of the key under which the
\* provider made (or listed) its payment intent.
C7_IsLiveModeOfKey ==
    \A id \in DOMAIN payments :
        payments[id].isLiveMode = (provIntents[payments[id].paymentIntentId].mode = "live")

\* C8: the payment that POST /api/create-payment-intent stores for a valid
\* amount a holds a as a whole number, and a is the amount that the provider
\* was given.
C8_NoUnitDrift ==
    [][\A r \in inflight :
          CreatePaymentIntentStore(r)
              => /\ payments'[currentPaymentId].amount = r.amount
                 /\ r.amount % 1000 = 0
                 /\ 1000 * provIntents[r.paymentIntent.id].amount = r.amount]_vars

\* the payment that a reconciliation step of request r writes: <<id>>, or <<>>
\* when the step writes none
ReconciledBy(r) ==
    IF r.op = "update-payment-status:fee"
    THEN (IF r.payment \in DOMAIN payments THEN <<r.payment>> ELSE <<>>)
    ELSE IF r.op = "update-payment-status"
    THEN LET payment == getPaymentByIntentId(payments, r.paymentIntentId)
         IN  IF payment = <<>> THEN <<>> ELSE <<payment[1].id>>
    ELSE <<>>

\* request r's reconciliation step is taken
ReconcileStep(r) == UpdatePaymentStatusResume(r) \/ UpdatePaymentStatusFee(r)

\* C9, as stated: a reconciliation under the snapshot that the last
\* reconciliation of the payment applied leaves the payment's record as it is.
C9_SameSnapshotNoChange ==
    [][\A r \in inflight :
          (/\ ReconcileStep(r)
           /\ ReconciledBy(r) # <<>>
           /\ ReconciledBy(r)[1] \in DOMAIN reconciled
           /\ reconciled[ReconciledBy(r)[1]].paymentIntent = r.paymentIntent)
              => payments'[ReconciledBy(r)[1]] = payments[ReconciledBy(r)[1]]]_vars

\* C9, amended: a reconciliation under the snapshot that the last
\* reconciliation of the payment applied, of a record that nothing has written
\* since that reconciliation, leaves the record as it is (reconciling twice
\* gives what reconciling once gives).
C9_ReconcileTwice ==
    [][\A r \in inflight :
          (/\ ReconcileStep(r)
           /\ ReconciledBy(r) # <<>>
           /\ ReconciledBy(r)[1] \in DOMAIN reconciled
           /\ reconciled[ReconciledBy(r)[1]].paymentIntent = r.paymentIntent
           /\ reconciled[ReconciledBy(r)[1]].payment = payments[ReconciledBy(r)[1]])
              => payments'[ReconciledBy(r)[1]] = payments[ReconciledBy(r)[1]]]_vars

\* a succeeded payment, with its card and fee, has been reconciled and a
\* second reconciliation under the same snapshot is about to write it
C9_SecondReconciliation ==
    \E r \in inflight :
        /\ r.op = "update-payment-status:fee"
        /\ r.payment \in DOMAIN reconciled
        /\ r.payment \in DOMAIN payments
        /\ reconciled[r.payment].paymentIntent = r.paymentIntent
        /\ reconciled[r.payment].payment = payments[r.payment]
        /\ payments[r.payment].stripeFee # <<>>

\* request r's reconciliation step writes a snapshot that is no longer the
\* provider's
StaleReconcileStep(r) ==
    /\ ReconcileStep(r)
    /\ r.paymentIntent # Snapshot(provIntents, r.paymentIntent.id)

\* C10: a payment whose status is succeeded, failed or canceled keeps that
\* status through the delivery of a webhook event and through a
\* reconciliation whose snapshot is out of date.
C10_TerminalStatusKept ==
    [][(\/ \E event \in ProvEvents : webhookSecret /\ Webhook(event, TRUE)
        \/ \E r \in inflight : StaleReconcileStep(r))
          => \A id \in DOMAIN payments \cap DOMAIN payments' :
                 payments[id].status \in TerminalStatuses
                     => payments'[id].status = payments[id].status]_vars

\* C11: in every reachable state no two payments of the store hold the same
\* paymentIntentId.
C11_PaymentIntentIdUnique ==
    \A a, b \in DOMAIN payments :
        payments[a].paymentIntentId = payments[b].paymentIntentId => a = b

\* a delivery of `event` that POST /webhook rejects: its signature fails
\* verification, or no webhook secret is configured
RejectedDelivery(event) ==
    \/ Webhook(event, FALSE)
    \/ ~webhookSecret /\ Webhook(event, TRUE)

\* C12: a delivery that is rejected changes nothing: no event is inserted and
\* no payment or refund is created or modified.
C12_RejectedNoChange ==
    [][\A event \in EventInputs : RejectedDelivery(event) => UNCHANGED store]_vars

\* no secret is configured, no event is stored, and the provider has emitted
\* an event whose ingestion would change the status of a stored payment
C12_RejectedPending ==
    /\ ~webhookSecret
    /\ webhookEvents = <<>>
    /\ \E event \in ProvEvents : HandleEvent(payments, event) # payments

\* the store holds a payment for the intent, and its status is succeeded
RefundablePayment(paymentIntentId) ==
    LET payment == getPaymentByIntentId(payments, paymentIntentId)
    IN  payment # <<>> /\ payment[1].status = "succeeded"

\* C13: a call to the provider's refunds.create is issued, and a refund made
\* at the provider, only for an intent whose local payment exists and is
\* succeeded when the request is served; and a refund is stored only by the
\* continuation of such a call (or by a history sync).
C13_RefundNeedsSucceededPayment ==
    [][/\ \A r \in inflight' \ inflight :
              r.op = "create-refund" => RefundablePayment(r.paymentIntentId)
       /\ Len(provRefunds') > Len(provRefunds)
              => RefundablePayment(provRefunds'[Len(provRefunds')].payment_intent)
       /\ \A id \in DOMAIN refunds' \ DOMAIN refunds :
              \E r \in inflight \ inflight' :
                  \/ r.op = "sync:refunds"
                  \/ /\ r.op = "create-refund"
                     /\ r.refund # <<>>
                     /\ refunds'[id].paymentIntentId = r.paymentIntentId]_vars

\* a refund request for a succeeded payment has been sent on to the provider,
\* which has made the refund
C13_RefundInFlight ==
    \E r \in inflight :
        /\ r.op = "create-refund"
        /\ r.refund # <<>>
        /\ payments[r.payment].status = "succeeded"

\* the switch has nothing to apply for the event: its type has no case, or no
\* payment of the store holds its intent
NothingToApply(event) ==
    \/ event.type \in OtherEventTypes
    \/ getPaymentByIntentId(payments, event.object) = <<>>

\* C14: the accepted delivery of an event for which there is nothing to
\* apply stores the event, leaves it processed, and creates or changes no
\* payment and no refund.
C14_NothingToApply ==
    [][\A event \in ProvEventsAll :
          (webhookSecret /\ NothingToApply(event) /\ Webhook(event, TRUE))
              => /\ event \in DOMAIN webhookEvents'
                 /\ webhookEvents'[event].processed
                 /\ UNCHANGED <<payments, refunds, currentPaymentId, currentRefundId>>]_vars

\* the store holds, processed, an event of a type without a case and a
\* payment_failed event whose intent no payment holds
C14_StoredUnapplied ==
    /\ \E e \in DOMAIN webhookEvents :
           /\ e.type \in OtherEventTypes
           /\ webhookEvents[e].processed
    /\ \E e \in DOMAIN webhookEvents :
           /\ e.type = "payment_intent.payment_failed"
           /\ webhookEvents[e].processed
           /\ getPaymentByIntentId(payments, e.object) = <<>>

\* C15: in every state that a request handler can observe, the provider
\* client in use is the one built from the secret key of the current mode.
C15_ModeContextMatched == currentStripe = currentMode

\* the mode has been switched to live while a request that called the
\* provider under the test key is still in flight
C15_SwitchedWhileInFlight ==
    /\ currentMode = "live"
    /\ \E r \in inflight :
           /\ r.op = "create-payment-intent"
           /\ provIntents[r.paymentIntent.id].mode = "test"

\* C16: in every reachable state, after a history sync that runs to its end
\* every intent that the provider holds in the active mode has a payment in
\* the store, and every refund of the provider in that mode whose payment the
\* store holds has a refund in the store, however many the provider holds.
C16_SyncComplete ==
    LET after == SyncRun(Stored)
    IN  /\ \A i \in Indices(provIntents) :
               provIntents[i].mode = currentStripe
                   => getPaymentByIntentId(after.payments, i) # <<>>
        /\ \A j \in Indices(provRefunds) :
               (/\ provRefunds[j].mode = currentStripe
                /\ getPaymentByIntentId(after.payments, provRefunds[j].payment_intent) # <<>>)
                   => \E x \in listRefunds(after.refunds) : x.refundId = j

\* C17: a restart of the process loses nothing: the payments, refunds, events
\* and id counters after it are those the store held at the last returned
\* mutation.
C17_Durable ==
    [][Restart => store' = store]_vars

\* C18: an event row, once stored, is never deleted and keeps its id and its
\* payload, and processed never goes back from true to false: a later
\* delivery of an event whose id is already stored changes nothing of its row.
C18_EventRowKept ==
    [][\A eventId \in DOMAIN webhookEvents :
           /\ eventId \in DOMAIN webhookEvents'
           /\ webhookEvents'[eventId].id = webhookEvents[eventId].id
           /\ webhookEvents'[eventId].data = webhookEvents[eventId].data
           /\ webhookEvents[eventId].processed => webhookEvents'[eventId].processed]_vars

\* C19: a request to POST /api/switch-mode whose mode is neither 'test' nor
\* 'live' changes neither the active mode nor the active client.
C19_InvalidModeRejected ==
    [][\A mode \in ModeInputs \ Modes : SwitchMode(mode) => UNCHANGED modeContext]_vars

\* the server is in live mode with the live client, a request is in flight,
\* and a switch request with an unknown name can be served
C19_InvalidNameInLiveMode ==
    /\ currentMode = "live"
    /\ currentStripe = "live"
    /\ inflight # {}
    /\ \E mode \in ModeInputs \ Modes : ENABLED SwitchMode(mode)

\* C20: the server starts in test mode with the test client, and every step
\* that changes the active mode or the active client is a request to
\* POST /api/switch-mode that names the mode it leads to, 'test' or 'live'.
C20_ModeChangesOnlyBySwitch ==
    /\ currentMode = "test" /\ currentStripe = "test"
    /\ [][modeContext' # modeContext =>
              /\ currentMode' \in Modes
              /\ currentMode' # currentMode
              /\ SwitchMode(currentMode')]_vars

\* the server is in live mode and holds a payment made in live mode
C20_LiveAfterSwitch ==
    /\ currentMode = "live"
    /\ currentStripe = "live"
    /\ \E p \in listPayments(payments) : p.isLiveMode

\* C21: a delivery whose handling throws after the row was stored leaves the
\* row stored with processed = false, and when it is the dispatch that throws
\* the payments are as they were; a row is written as processed only by a
\* step in which the dispatch of its event ran to its end.
C21_FailedStaysUnprocessed ==
    [][\A event \in EventInputs :
           /\ \A point \in FailurePoints :
                  WebhookFails(event, point) =>
                      /\ event \in DOMAIN webhookEvents'
                      /\ ~webhookEvents'[event].processed
                      /\ point = "switch" => payments' = payments
           /\ (/\ event \in DOMAIN webhookEvents'
               /\ webhookEvents'[event].processed
               /\ event \in DOMAIN webhookEvents =>
                      webhookEvents'[event] # webhookEvents[event])
                  => payments' = HandleEvent(payments, event)]_vars

\* a payment_intent.succeeded event is stored unprocessed and the payment it
\* is about is not succeeded
C21_FailedDelivery ==
    \E event \in DOMAIN webhookEvents :
        /\ event.type = "payment_intent.succeeded"
        /\ ~webhookEvents[event].processed
        /\ \E p \in listPayments(payments) :
               p.paymentIntentId = event.object /\ p.status # "succeeded"

\* C22: a delivery of an event whose row is stored unprocessed applies the
\* event's dispatch and leaves the row processed; and when the provider goes
\* on delivering, an event whose row is unprocessed is eventually processed.
C22_FailedEventRedelivered ==
    /\ [][\A event \in EventIds :
              (/\ Redelivery(event)
               /\ webhookSecret
               /\ event \in DOMAIN webhookEvents
               /\ ~webhookEvents[event].processed)
                  => /\ payments' = HandleEvent(payments, event)
                     /\ webhookEvents'[event].processed]_vars
    /\ \A event \in EventIds :
           (event \in DOMAIN webhookEvents /\ ~webhookEvents[event].processed)
               ~> (event \in DOMAIN webhookEvents /\ webhookEvents[event].processed)

\* the only row of the store has been written more than once, it is
\* processed, and the payment of its payment_intent.succeeded event is
\* succeeded
C22_DeliveredAgain ==
    \E event \in DOMAIN webhookEvents :
        /\ event.type = "payment_intent.succeeded"
        /\ webhookEvents[event].processed
        /\ webhookEvents[event].id > Cardinality(DOMAIN webhookEvents)
        /\ \E p \in listPayments(payments) :
               p.paymentIntentId = event.object /\ p.status = "succeeded"

\* C23: in every reachable state, every stored refund whose parent payment
\* (the record with id = paymentId) is stored has the isLiveMode of that
\* payment.
C23_RefundModeOfParent ==
    \A refund \in listRefunds(refunds) :
        refund.paymentId \in DOMAIN payments
            => refund.isLiveMode = payments[refund.paymentId].isLiveMode

\* C24: in every reachable state, for every refund.created or refund.updated
\* event that is stored as processed the store holds a refund with the id of
\* the event's refund, and its status is the one the event carries.
C24_RefundEventApplied ==
    \A event \in DOMAIN webhookEvents :
        (event.type \in RefundEventTypes /\ webhookEvents[event].processed)
            => \E refund \in listRefunds(refunds) :
                   /\ refund.refundId = event.object
                   /\ refund.status = provRefunds[event.object].status

\* C25: a refund request whose amount is given and is not above zero is
\* rejected: no call to the provider is issued for it, no refund is made at
\* the provider and none is stored.
C25_NonPositiveAmountRejected ==
    [][\A i \in IntentInputs, amount \in RefundAmountInputs \ {NoAmount} :
          (amount[1] <= 0 /\ CreateRefundCall(i, amount))
              => (inflight' = inflight /\ provRefunds' = provRefunds
                  /\ refunds' = refunds)]_vars

\* C26: a reconciliation whose snapshot is not succeeded, or is succeeded
\* while the record is already succeeded, leaves those of the record's
\* cardLast4, paymentMethodType and stripeFee that were populated as they
\* were.
C26_DerivedFieldsKept ==
    [][\A r \in inflight :
          (/\ ReconcileStep(r)
           /\ ReconciledBy(r) # <<>>
           /\ \/ r.paymentIntent.status # "succeeded"
              \/ payments[ReconciledBy(r)[1]].status = "succeeded")
              => LET before == payments[ReconciledBy(r)[1]]
                     after == payments'[ReconciledBy(r)[1]]
                 IN  /\ before.cardLast4 # Null => after.cardLast4 = before.cardLast4
                     /\ before.paymentMethodType # Null
                            => after.paymentMethodType = before.paymentMethodType
                     /\ before.stripeFee # <<>> => after.stripeFee = before.stripeFee]_vars

\* request r's reconciliation of a stored payment answers success in this
\* step: its update is written, not deferred to the fee's retrieval
ReconcileSucceeds(r) ==
    /\ ReconcileStep(r)
    /\ ReconciledBy(r) # <<>>
    /\ r.op = "update-payment-status"
           => ~(r.paymentIntent.status = "succeeded" /\ r.paymentIntent.charges)

\* C27: after every reconciliation of a stored payment that answers success,
\* the status of the payment's record is the status of the snapshot that the
\* request retrieved, whatever the status was before.
C27_ProviderWins ==
    [][\A r \in inflight :
          ReconcileSucceeds(r)
              => payments'[ReconciledBy(r)[1]].status = r.paymentIntent.status]_vars

\* a reconciliation is about to write a snapshot whose status is not the one
\* of the record, which is succeeded or failed
C27_Disagreement ==
    \E r \in inflight :
        /\ ENABLED ReconcileSucceeds(r)
        /\ payments[ReconciledBy(r)[1]].status \in {"succeeded", "failed"}
        /\ payments[ReconciledBy(r)[1]].status # r.paymentIntent.status

\* C28: a reconciliation request for an id that no stored payment holds is
\* decided by the lookup in the store: it changes nothing and is not left
\* waiting for the provider's answer.
C28_UnknownDecidedLocally ==
    [][\A i \in IntentInputs :
          (getPaymentByIntentId(payments, i) = <<>> /\ UpdatePaymentStatusCall(i))
              => UNCHANGED vars]_vars

\* the least amount a payment is taken for: 0.50
MinimumAmount == 500

\* the amount is missing or below the minimum
BelowMinimum(amount) == amount = NoAmount \/ amount[1] < MinimumAmount

\* C29: a payment request whose amount is missing or below the minimum
\* changes nothing: no call to the provider is issued for it, no intent is
\* made and no payment is stored; and the request whose provider call failed
\* ends without a payment stored.
C29_RejectedBeforeProvider ==
    [][/\ \A amount \in PaymentAmounts :
              (BelowMinimum(amount) /\ CreatePaymentIntentCall(amount))
                  => UNCHANGED <<inflight, provider, store>>
       /\ \A r \in inflight :
              CreatePaymentIntentCatch(r) => UNCHANGED <<provider, store>>]_vars

\* a payment is stored, and a request whose provider call failed is on its
\* way to the catch
C29_ProviderCallFailed ==
    /\ payments # <<>>
    /\ \E r \in inflight : r.op = "create-payment-intent:error"

\* does record a come before record b in the order newest first, ties by
\* descending id
Before(a, b) ==
    \/ a.createdAt > b.createdAt
    \/ a.createdAt = b.createdAt /\ a.id > b.id

\* the records of store m in that order
RECURSIVE NewestFirstByIdDesc(_)
NewestFirstByIdDesc(m) ==
    IF DOMAIN m = {} THEN <<>>
    ELSE LET first == CHOOSE id \in DOMAIN m :
                          \A other \in DOMAIN m \ {id} : Before(m[id], m[other])
         IN  <<m[first]>> \o NewestFirstByIdDesc(MapDelete(m, first))

\* C30: the answer of a listing is the slice [offset, offset + limit) of the
\* store's records ordered newest first by createdAt, those of equal
\* createdAt by descending id.
C30_NewestFirstTiesByIdDesc ==
    listed # <<>> =>
        listed.body = Slice(NewestFirstByIdDesc(IF listed.of = "payments"
                                                THEN payments ELSE refunds),
                            listed.offset, listed.offset + listed.limit)

\* C31: in every reachable state, the isLiveMode of a stored event is the
\* mode of the key under which the event's intent was made, whatever the mode
\* of the server at the event's delivery.
C31_EventModeOfOrigin ==
    \A event \in DOMAIN webhookEvents :
        webhookEvents[event].isLiveMode = (provIntents[event.object].mode = "live")

\* C32: every step that stores a refund stores it under a payment that the
\* store holds with status succeeded.
C32_RefundUnderSucceededPayment ==
    [][\A id \in DOMAIN refunds' \ DOMAIN refunds :
          /\ refunds'[id].paymentId \in DOMAIN payments'
          /\ payments'[refunds'[id].paymentId].status = "succeeded"]_vars

\* C33: in every reachable state, the paymentId of every stored refund is the
\* id of a payment that the store holds.
C33_RefundParentStored ==
    \A refund \in listRefunds(refunds) : refund.paymentId \in DOMAIN payments

\* C34: DELETE /api/clear-test-payments deletes exactly the test-mode
\* payments whose status is requires_payment_method, and changes no other
\* payment, no refund and no webhook event.
C34_ClearsExactlyTestUnpaid ==
    [][ClearTestPayments =>
          /\ DOMAIN payments \ DOMAIN payments' =
                 {id \in DOMAIN payments :
                     /\ ~payments[id].isLiveMode
                     /\ payments[id].status = "requires_payment_method"}
          /\ \A id \in DOMAIN payments' : payments'[id] = payments[id]
          /\ refunds' = refunds
          /\ webhookEvents' = webhookEvents]_vars

\* C35: a step of the history sync leaves every payment and every refund that
\* was stored before it as it was, and the count it reports for the step is
\* the number of records the step inserted.
C35_SyncOnlyInserts ==
    [][\A r \in inflight :
          /\ SyncPaymentsResume(r) =>
                /\ \A id \in DOMAIN payments :
                       id \in DOMAIN payments' /\ payments'[id] = payments[id]
                /\ refunds' = refunds
                /\ SyncPayments([ payments |-> payments,
                                  currentPaymentId |-> currentPaymentId,
                                  syncedPayments |-> 0 ],
                                r.paymentIntents, currentMode = "live").syncedPayments
                       = Cardinality(DOMAIN payments' \ DOMAIN payments)
                /\ \E answer \in inflight' :
                       /\ answer.op = "sync:refunds"
                       /\ answer.syncedPayments =
                              Cardinality(DOMAIN payments' \ DOMAIN payments)
          /\ SyncRefundsResume(r) =>
                /\ \A id \in DOMAIN refunds :
                       id \in DOMAIN refunds' /\ refunds'[id] = refunds[id]
                /\ payments' = payments
                /\ SyncRefunds([ refunds |-> refunds,
                                 currentRefundId |-> currentRefundId,
                                 syncedRefunds |-> 0 ],
                               payments, r.refunds, currentMode = "live").syncedRefunds
                      = Cardinality(DOMAIN refunds' \ DOMAIN refunds)]_vars

\* a sync has inserted one payment beside a payment stored before it, and a
\* refund has been inserted by a sync
C35_InsertedBesideStored ==
    /\ \E r \in inflight :
           /\ r.op = "sync:refunds"
           /\ r.syncedPayments = 1
           /\ Cardinality(DOMAIN payments) = 2
    /\ refunds # <<>>

\* C36: POST /api/fix-currency leaves unchanged every refund whose stored
\* amount is the amount of its refund at the provider, in units.
C36_FixLeavesGenuine ==
    [][FixCurrency =>
          \A id \in DOMAIN refunds :
              refunds[id].amount = 10 * provRefunds[refunds[id].refundId].amount
                  => refunds'[id] = refunds[id]]_vars

\* C37: in every reachable state, no two stored webhook events have the same
\* local id.
C37_EventIdsUnique ==
    \A a, b \in DOMAIN webhookEvents :
        a # b => webhookEvents[a].id # webhookEvents[b].id

\* C38: the counters of local ids never go back, and every payment and every
\* refund that a step stores takes an id from its counter's value before the
\* step up to, not including, its value after it: ids rise in creation order
\* and none is given twice, a deletion or a restart notwithstanding.
C38_IdsNeverReused ==
    [][/\ currentPaymentId' >= currentPaymentId
       /\ currentRefundId' >= currentRefundId
       /\ \A id \in DOMAIN payments' \ DOMAIN payments :
              /\ payments'[id].id = id
              /\ currentPaymentId <= id /\ id < currentPaymentId'
       /\ \A id \in DOMAIN refunds' \ DOMAIN refunds :
              /\ refunds'[id].id = id
              /\ currentRefundId <= id /\ id < currentRefundId']_vars

====
